---- MODULE Spec2Model ----
(***************************************************************************)
(* The document-portal backend: an Express application with three routes   *)
(* (POST /register, POST /login, GET /documents/:country/:type) over a     *)
(* PostgreSQL connection pool, plus the connection test run at startup.    *)
(* The repository holds two copies of the server, src/server.js and        *)
(* src/unnamed/part_000; they differ in the pool configuration, in log     *)
(* texts and in the text of the 409 response of /register.                 *)
(*                                                                         *)
(* Every request is one asynchronous task.  A task runs without            *)
(* interruption from one await to the next, so each action below is the    *)
(* code between two awaits of one handler.                                 *)
(***************************************************************************)
EXTENDS Integers, Sequences, FiniteSets, TLC

VARIABLES
    variant,     \* which of the two copies of the server is running
    workload,    \* the requests the clients submit, in order; <<>> = any
    users,       \* table users, rows in insertion order
    document_details, \* table document_details, rows in the order returned
    nextId,      \* the sequence behind users.id
    checkedOut,  \* clients of the pool that are checked out
    startup,     \* position of the startup connection test
    req          \* the requests: inputs, position, locals, responses sent

vars == <<variant, workload, users, document_details, nextId, checkedOut,
          startup, req>>

-----------------------------------------------------------------------------
(* Bounds *)

\* requests the clients submit in one run
MaxReqs == 2
\* clients the pool hands out at the same time
PoolMax == 2

-----------------------------------------------------------------------------
(* Values *)

\* a field that the request body does not carry
Undefined == "undefined"

Variants == {"server.js", "part_000"}

Emails == {Undefined, "a@x.com", "b@x.com"}
Passwords == {Undefined, "", "secret", "wrong"}
Countries == {"US", "FR"}
Types == {"passport"}
Salts == {"s1", "s2"}

\* the content of table document_details
DocumentDetails ==
    << [country |-> "FR", document_type |-> "passport", details |-> "v1"],
       [country |-> "FR", document_type |-> "passport", details |-> "v2"],
       [country |-> "DE", document_type |-> "passport", details |-> "v3"] >>

RegisterInput(e, p) ==
    [kind |-> "register", email |-> e, password |-> p,
     country |-> Undefined, type |-> Undefined]
LoginInput(e, p) ==
    [kind |-> "login", email |-> e, password |-> p,
     country |-> Undefined, type |-> Undefined]
DocumentsInput(c, t) ==
    [kind |-> "documents", email |-> Undefined, password |-> Undefined,
     country |-> c, type |-> t]

NoInput == [kind |-> "none", email |-> Undefined, password |-> Undefined,
            country |-> Undefined, type |-> Undefined]

\* the scenario of the specification's section 8, followed by a lookup
Scenario ==
    << RegisterInput("a@x.com", "secret"),
       RegisterInput("a@x.com", "secret"),
       LoginInput("a@x.com", "wrong"),
       LoginInput("a@x.com", "secret"),
       DocumentsInput("US", "passport") >>

-----------------------------------------------------------------------------
(* Pure parts of the handlers *)

\* JavaScript's !v on the values a body field takes here
Falsy(v) == v \in {Undefined, ""}

\* variant: the check looks at email alone
MissingFieldsEmailOnly(email, password) == Falsy(email)

\* if (!email || !password)
MissingFields(email, password) == Falsy(email) \/ Falsy(password)

\* bcrypt.hash(password, salt): the hash carries its salt
BcryptHash(password, salt) == <<salt, password>>

\* bcrypt.compare(password, hash): re-derive with the salt in the hash
BcryptCompare(password, hash) == BcryptHash(password, hash[1]) = hash

Response(status, body) == [status |-> status, body |-> body]

ValidationResponse ==
    Response(400, [message |-> "Email and password are required."])

ConflictMessage(v) ==
    IF v = "server.js"
    THEN "Email already exists. Please use a different email."
    ELSE "Email already exists."

\* variant: the 201 body carries no userId
RegisterCreatedNoId(rows) ==
    Response(201, [message |-> "User registered successfully!"])

\* res.status(201).json({ message, userId: result.rows[0].id })
RegisterCreated(rows) ==
    Response(201, [message |-> "User registered successfully!",
                   userId |-> rows[1].id])

\* variant: the catch block does not look at error.code
RegisterCatchAlways500(v, code) ==
    Response(500, [message |-> "Internal server error during registration."])

\* the catch block of /register; code is error.code
RegisterCatch(v, code) ==
    IF code = "23505"
    THEN Response(409, [message |-> ConflictMessage(v)])
    ELSE Response(500, [message |-> "Internal server error during registration."])

\* variant: the missing row gets a message of its own
LoginNoUserDistinct == Response(401, [message |-> "User not found."])

\* if (!user) return res.status(401)...
LoginNoUser == Response(401, [message |-> "Invalid email or password."])

\* variant: the branches of the comparison are swapped
LoginComparedInverted(isMatch) ==
    IF isMatch
    THEN Response(401, [message |-> "Invalid email or password."])
    ELSE Response(200, [message |-> "Login successful!"])

\* if (isMatch) ... else ...
LoginCompared(isMatch) ==
    IF isMatch
    THEN Response(200, [message |-> "Login successful!"])
    ELSE Response(401, [message |-> "Invalid email or password."])

\* the catch block of /login
LoginCatch ==
    Response(500, [message |-> "Internal server error during login."])

\* variant: the last matching row is sent
DocumentsRespondLast(rows) ==
    IF Len(rows) > 0
    THEN Response(200, rows[Len(rows)])
    ELSE Response(404,
        [message |-> "Document not found for the specified country and type."])

\* const document = result.rows[0]; if (document) ... else ...
DocumentsRespond(rows) ==
    IF Len(rows) > 0
    THEN Response(200, rows[1])
    ELSE Response(404,
        [message |-> "Document not found for the specified country and type."])

\* the catch block of /documents
DocumentsCatch ==
    Response(500, [message |-> "Internal server error fetching document details."])

-----------------------------------------------------------------------------
(* The datastore *)

\* SELECT * FROM users WHERE email = $1
SelectUsers(table, email) ==
    LET Match(row) == row.email = email IN SelectSeq(table, Match)

\* SELECT * FROM document_details WHERE country = $1 AND document_type = $2
SelectDocuments(table, country, type) ==
    LET Match(row) == row.country = country /\ row.document_type = type
    IN SelectSeq(table, Match)

\* variant: table users without the unique constraint
UniqueViolationNever(table, email) == FALSE

\* the unique constraint on users.email, reported as code 23505
UniqueViolation(table, email) == SelectUsers(table, email) # <<>>

\* variant: the statement writes over the last row
InsertUserOverLast(table, id, email, passwordHash, salt) ==
    SubSeq(table, 1, Len(table) - 1)
        \o <<[id |-> id, email |-> email,
              password_hash |-> passwordHash, salt |-> salt]>>

\* INSERT INTO users (email, password_hash, salt) VALUES ($1, $2, $3)
InsertUser(table, id, email, passwordHash, salt) ==
    Append(table, [id |-> id, email |-> email,
                   password_hash |-> passwordHash, salt |-> salt])

\* what table users holds when the server starts
InitialUsers ==
    { <<>>,
      InsertUser(<<>>, 1, "b@x.com", BcryptHash("secret", "s2"), "s2") }

\* variant: release() comes after the check of err
StartupReleasedOnSuccess(err) == IF err THEN 0 ELSE 1

\* release() in the callback of the startup test query: clients given back
StartupReleased(err) == 1

-----------------------------------------------------------------------------
(* Requests *)

Max(a, b) == IF a > b THEN a ELSE b

Slots == 1..Max(MaxReqs, Len(Scenario))

\* the requests the clients submit in this run
Submitted == IF workload = <<>> THEN 1..MaxReqs ELSE 1..Len(workload)

IdleRequest ==
    [in |-> NoInput, pc |-> "idle", salt |-> Undefined, hash |-> <<>>,
     rows |-> <<>>, sent |-> <<>>, error |-> "none", queries |-> 0,
     hashes |-> 0, doneBefore |-> {}, usersAtStart |-> <<>>,
     usersAtEnd |-> <<>>]

\* variant: bcrypt.compare is awaited outside the try block
TryCoversButCompare(pc) == pc \in {"genSalt", "hash", "connect", "query"}

\* the awaits of a handler that its try block encloses
TryCovers(pc) == pc \in {"genSalt", "hash", "connect", "query", "compare"}

Catch(kind, code) ==
    CASE kind = "register" -> RegisterCatch(variant, code)
      [] kind = "login" -> LoginCatch
      [] kind = "documents" -> DocumentsCatch

\* res.status(...).json(...) and the end of the handler
Finish(rq, resp, table) ==
    [rq EXCEPT !.pc = "done", !.sent = Append(@, resp), !.usersAtEnd = table]

\* an awaited promise rejects with error.code = code
Throw(rq, code, table) ==
    IF TryCovers(rq.pc)
    THEN Finish([rq EXCEPT !.error = code], Catch(rq.in.kind, code), table)
    ELSE [rq EXCEPT !.pc = "crashed", !.error = code, !.usersAtEnd = table]

Answered == {r \in Slots : req[r].pc \in {"done", "crashed"}}

\* request r arrives carrying input in.  Requests are numbered in the order
\* of their arrival.  Unscripted clients submit requests at any time; a
\* scripted client waits for each response before it sends the next request.
Arrive(r, in) ==
    /\ r \in Submitted
    /\ req[r].pc = "idle"
    /\ IF workload = <<>>
       THEN IF r = 1 THEN TRUE ELSE req[r - 1].pc # "idle"
       ELSE /\ IF r = 1 THEN TRUE ELSE r - 1 \in Answered
            /\ workload[r] = in

Arrived(r, in) ==
    [req[r] EXCEPT !.in = in, !.doneBefore = Answered, !.usersAtStart = users]

-----------------------------------------------------------------------------
(* Startup connection test *)

\* pool.connect((err, client, release) => ...)
StartupConnect ==
    /\ startup = "connect"
    /\ \/ /\ checkedOut < PoolMax
          /\ checkedOut' = checkedOut + 1
          /\ startup' = "query"
       \/ /\ startup' = "done"
          /\ UNCHANGED checkedOut
    /\ UNCHANGED <<variant, workload, users, document_details, nextId, req>>

\* client.query('SELECT NOW()', (err, result) => { release(); ... })
StartupQueryDone ==
    /\ startup = "query"
    /\ \E err \in BOOLEAN :
          checkedOut' = checkedOut - StartupReleased(err)
    /\ startup' = "done"
    /\ UNCHANGED <<variant, workload, users, document_details, nextId, req>>

-----------------------------------------------------------------------------
(* POST /register *)

\* the handler up to await bcrypt.genSalt(saltRounds)
RegisterBegin(r) ==
    /\ \E e \in Emails, p \in Passwords :
          /\ Arrive(r, RegisterInput(e, p))
          /\ LET rq == Arrived(r, RegisterInput(e, p)) IN
             req' = [req EXCEPT ![r] =
                 IF MissingFields(e, p)
                 THEN Finish(rq, ValidationResponse, users)
                 ELSE [rq EXCEPT !.pc = "genSalt", !.hashes = @ + 1]]
    /\ UNCHANGED <<variant, workload, users, document_details, nextId, checkedOut, startup>>

\* bcrypt.genSalt settles; bcrypt.hash(password, salt) is called
RegisterGenSaltDone(r) ==
    /\ req[r].pc = "genSalt"
    /\ \/ \E s \in Salts :
             req' = [req EXCEPT ![r] =
                 [req[r] EXCEPT !.salt = s, !.pc = "hash", !.hashes = @ + 1]]
       \/ req' = [req EXCEPT ![r] = Throw(req[r], "other", users)]
    /\ UNCHANGED <<variant, workload, users, document_details, nextId, checkedOut, startup>>

\* bcrypt.hash settles; pool.query(INSERT ...) is called
RegisterHashDone(r) ==
    /\ req[r].pc = "hash"
    /\ \/ req' = [req EXCEPT ![r] =
              [req[r] EXCEPT
                  !.hash = BcryptHash(req[r].in.password, req[r].salt),
                  !.pc = "connect", !.queries = @ + 1]]
       \/ req' = [req EXCEPT ![r] = Throw(req[r], "other", users)]
    /\ UNCHANGED <<variant, workload, users, document_details, nextId, checkedOut, startup>>

\* the INSERT settles and the pool takes its client back
RegisterInsertDone(r) ==
    /\ req[r].pc = "query"
    /\ req[r].in.kind = "register"
    /\ checkedOut' = checkedOut - 1
    /\ \/ IF UniqueViolation(users, req[r].in.email)
          THEN /\ req' = [req EXCEPT ![r] = Throw(req[r], "23505", users)]
               /\ UNCHANGED <<users, nextId>>
          ELSE /\ users' = InsertUser(users, nextId, req[r].in.email,
                                      req[r].hash, req[r].salt)
               /\ nextId' = nextId + 1
               /\ req' = [req EXCEPT ![r] =
                      Finish(req[r],
                             RegisterCreated(<<[id |-> nextId]>>), users')]
       \/ /\ req' = [req EXCEPT ![r] = Throw(req[r], "other", users)]
          /\ UNCHANGED <<users, nextId>>
    /\ UNCHANGED <<variant, workload, document_details, startup>>

-----------------------------------------------------------------------------
(* The pool *)

\* pool.query checks a client out, or fails to
QueryConnect(r) ==
    /\ req[r].pc = "connect"
    /\ \/ /\ checkedOut < PoolMax
          /\ checkedOut' = checkedOut + 1
          /\ req' = [req EXCEPT ![r].pc = "query"]
       \/ /\ req' = [req EXCEPT ![r] = Throw(req[r], "other", users)]
          /\ UNCHANGED checkedOut
    /\ UNCHANGED <<variant, workload, users, document_details, nextId, startup>>

-----------------------------------------------------------------------------
(* POST /login *)

\* the handler up to await pool.query(SELECT ... users ...)
LoginBegin(r) ==
    /\ \E e \in Emails, p \in Passwords :
          /\ Arrive(r, LoginInput(e, p))
          /\ LET rq == Arrived(r, LoginInput(e, p)) IN
             req' = [req EXCEPT ![r] =
                 IF MissingFields(e, p)
                 THEN Finish(rq, ValidationResponse, users)
                 ELSE [rq EXCEPT !.pc = "connect", !.queries = @ + 1]]
    /\ UNCHANGED <<variant, workload, users, document_details, nextId, checkedOut, startup>>

\* the SELECT settles; without a row 401, else bcrypt.compare is called
LoginSelectDone(r) ==
    /\ req[r].pc = "query"
    /\ req[r].in.kind = "login"
    /\ checkedOut' = checkedOut - 1
    /\ \/ LET rows == SelectUsers(users, req[r].in.email) IN
          req' = [req EXCEPT ![r] =
              IF rows = <<>>
              THEN Finish(req[r], LoginNoUser, users)
              ELSE [req[r] EXCEPT !.rows = rows, !.pc = "compare",
                                  !.hashes = @ + 1]]
       \/ req' = [req EXCEPT ![r] = Throw(req[r], "other", users)]
    /\ UNCHANGED <<variant, workload, users, document_details, nextId, startup>>

\* bcrypt.compare settles
LoginCompareDone(r) ==
    /\ req[r].pc = "compare"
    /\ \/ req' = [req EXCEPT ![r] =
              Finish(req[r],
                     LoginCompared(BcryptCompare(req[r].in.password,
                                                 req[r].rows[1].password_hash)),
                     users)]
       \/ req' = [req EXCEPT ![r] = Throw(req[r], "other", users)]
    /\ UNCHANGED <<variant, workload, users, document_details, nextId, checkedOut, startup>>

-----------------------------------------------------------------------------
(* GET /documents/:country/:type *)

\* the handler up to await pool.query(SELECT ... document_details ...)
DocumentsBegin(r) ==
    /\ \E c \in Countries, t \in Types :
          /\ Arrive(r, DocumentsInput(c, t))
          /\ req' = [req EXCEPT ![r] =
                 [Arrived(r, DocumentsInput(c, t)) EXCEPT
                     !.pc = "connect", !.queries = @ + 1]]
    /\ UNCHANGED <<variant, workload, users, document_details, nextId, checkedOut, startup>>

\* the SELECT settles
DocumentsSelectDone(r) ==
    /\ req[r].pc = "query"
    /\ req[r].in.kind = "documents"
    /\ checkedOut' = checkedOut - 1
    /\ \/ LET rows == SelectDocuments(document_details, req[r].in.country,
                                      req[r].in.type) IN
          req' = [req EXCEPT ![r] =
              [Finish(req[r], DocumentsRespond(rows), users)
                  EXCEPT !.rows = rows]]
       \/ req' = [req EXCEPT ![r] = Throw(req[r], "other", users)]
    /\ UNCHANGED <<variant, workload, users, document_details, nextId, startup>>

-----------------------------------------------------------------------------
(* Specifications *)

InitWith(w, tables) ==
    /\ variant \in Variants
    /\ workload = w
    /\ users \in tables
    /\ document_details = DocumentDetails
    /\ nextId = Len(users) + 1
    /\ checkedOut = 0
    /\ startup = "connect"
    /\ req = [r \in Slots |-> IdleRequest]

\* clients that submit any MaxReqs requests, over a table users that is
\* empty or holds one account registered by an earlier run
Init == InitWith(<<>>, InitialUsers)

\* clients that submit the requests of Scenario, in that order
InitScenario == InitWith(Scenario, {<<>>})

Next ==
    \/ StartupConnect
    \/ StartupQueryDone
    \/ \E r \in Slots :
          \/ RegisterBegin(r)
          \/ RegisterGenSaltDone(r)
          \/ RegisterHashDone(r)
          \/ RegisterInsertDone(r)
          \/ QueryConnect(r)
          \/ LoginBegin(r)
          \/ LoginSelectDone(r)
          \/ LoginCompareDone(r)
          \/ DocumentsBegin(r)
          \/ DocumentsSelectDone(r)

Spec == Init /\ [][Next]_vars

SpecScenario == InitScenario /\ [][Next]_vars

-----------------------------------------------------------------------------
(* Vocabulary of the properties *)

IsDone(r) == req[r].pc = "done"
Status(r) == req[r].sent[1].status
Body(r) == req[r].sent[1].body
Email(r) == req[r].in.email
Password(r) == req[r].in.password

\* r carries both fields, as non-empty strings
HasFields(r) == Email(r) \notin {Undefined, ""} /\ Password(r) \notin {Undefined, ""}

IsRegister(r) == req[r].in.kind = "register" /\ HasFields(r)
IsLogin(r) == req[r].in.kind = "login" /\ HasFields(r)
IsDocuments(r) == req[r].in.kind = "documents"

\* none of r's bcrypt calls and datastore calls failed, except by code 23505
Healthy(r) == req[r].error \in {"none", "23505"}

\* r1 was answered before r2 arrived
Before(r1, r2) == r1 \in req[r2].doneBefore

\* both were in flight at the same time
Overlap(r1, r2) == ~Before(r1, r2) /\ ~Before(r2, r1)

RowsFor(table, email) == {i \in 1..Len(table) : table[i].email = email}

\* no request but r1 and r2 registers email e
OnlyRegistrations(r1, r2, e) ==
    \A r3 \in Slots \ {r1, r2} : ~(IsRegister(r3) /\ Email(r3) = e)

-----------------------------------------------------------------------------
(* C1 *)

RacingPair(r1, r2) ==
    /\ r1 # r2
    /\ IsRegister(r1) /\ IsRegister(r2) /\ Email(r1) = Email(r2)
    /\ IsDone(r1) /\ IsDone(r2) /\ Healthy(r1) /\ Healthy(r2)
    /\ Overlap(r1, r2)
    /\ RowsFor(req[r1].usersAtStart, Email(r1)) = {}
    /\ RowsFor(req[r2].usersAtStart, Email(r2)) = {}
    /\ OnlyRegistrations(r1, r2, Email(r1))

\* C1: of two registrations of the same fresh email that are in flight at the
\* same time, with no failure of hashing or datastore, one is answered 201 and
\* the other 409, and users then holds exactly one row for the email.
C1_RaceOneWins ==
    \A r1, r2 \in Slots :
        RacingPair(r1, r2) =>
            /\ \/ Status(r1) = 201 /\ Status(r2) = 409
               \/ Status(r1) = 409 /\ Status(r2) = 201
            /\ Cardinality(RowsFor(users, Email(r1))) = 1

\* the request that arrived first loses the race
C1_Witness ==
    \E r1, r2 \in Slots :
        RacingPair(r1, r2) /\ r1 < r2 /\ Status(r1) = 409 /\ Status(r2) = 201

-----------------------------------------------------------------------------
(* C2 *)

SequentialPair(r1, r2) ==
    /\ IsRegister(r1) /\ IsRegister(r2) /\ Email(r1) = Email(r2)
    /\ IsDone(r1) /\ IsDone(r2) /\ Healthy(r1) /\ Healthy(r2)
    /\ Before(r1, r2)
    /\ RowsFor(req[r1].usersAtStart, Email(r1)) = {}
    /\ OnlyRegistrations(r1, r2, Email(r1))

\* C2: registering an email twice, the second request arriving after the
\* first was answered, gives 201 then 409, and the second request creates no
\* row: the rows of that email are the same after both responses, and with no
\* other request around the whole table is.
C2_SecondCreatesNoRow ==
    \A r1, r2 \in Slots :
        SequentialPair(r1, r2) =>
            /\ Status(r1) = 201
            /\ Status(r2) = 409
            /\ Cardinality(RowsFor(req[r2].usersAtEnd, Email(r1))) = 1
            /\ \A i \in RowsFor(req[r1].usersAtEnd, Email(r1)) :
                   /\ i <= Len(req[r2].usersAtEnd)
                   /\ req[r2].usersAtEnd[i] = req[r1].usersAtEnd[i]
            /\ (\A r3 \in Slots \ {r1, r2} : req[r3].pc = "idle")
                   => req[r2].usersAtEnd = req[r1].usersAtEnd

C2_Witness ==
    \E r1, r2 \in Slots :
        SequentialPair(r1, r2) /\ Status(r2) = 409 /\ Len(req[r2].usersAtEnd) = 2

-----------------------------------------------------------------------------
(* C3 *)

\* a login, free of failures, whose SELECT found no row
UnknownEmailLogin(l) ==
    /\ IsLogin(l) /\ IsDone(l) /\ req[l].error = "none"
    /\ req[l].rows = <<>>

\* a login, free of failures, whose password is not the one of the row found
WrongPasswordLogin(l) ==
    /\ IsLogin(l) /\ IsDone(l) /\ req[l].error = "none"
    /\ req[l].rows # <<>>
    /\ req[l].rows[1].password_hash
           # BcryptHash(Password(l), req[l].rows[1].salt)

\* C3: a login for an email without a row and a login with a password that
\* does not match the stored hash get the same response, status 401 and the
\* same body.
C3_SameRefusal ==
    \A l1, l2 \in Slots :
        UnknownEmailLogin(l1) /\ WrongPasswordLogin(l2) =>
            /\ req[l1].sent = req[l2].sent
            /\ Status(l1) = 401

C3_Witness ==
    \E l1, l2 \in Slots : UnknownEmailLogin(l1) /\ WrongPasswordLogin(l2)

-----------------------------------------------------------------------------
(* C4 *)

\* a registration, free of failures, of an email without a row on arrival
FreshRegistration(r) ==
    /\ IsRegister(r) /\ IsDone(r) /\ req[r].error # "other"
    /\ RowsFor(req[r].usersAtStart, Email(r)) = {}

\* no other registration of r's email is in flight together with r
Unrivalled(r) ==
    \A r3 \in Slots \ {r} :
        IsRegister(r3) /\ Email(r3) = Email(r) => ~Overlap(r, r3)

\* every later login with the credentials of a 201 registration gets 200
LoginAfterRegistration ==
    \A r, l \in Slots :
        /\ IsRegister(r) /\ IsDone(r) /\ Status(r) = 201
        /\ IsLogin(l) /\ IsDone(l) /\ req[l].error = "none"
        /\ Before(r, l)
        /\ Email(l) = Email(r) /\ Password(l) = Password(r)
        => Status(l) = 200

-----------------------------------------------------------------------------
(* C5 *)

\* a /register or /login request whose body omits email or password
OmitsField(r) ==
    /\ req[r].in.kind \in {"register", "login"}
    /\ Email(r) = Undefined \/ Password(r) = Undefined

C5_Answered400 ==
    \A r \in Slots :
        OmitsField(r) =>
            /\ IsDone(r) /\ Len(req[r].sent) = 1 /\ Status(r) = 400
            /\ req[r].queries = 0 /\ req[r].hashes = 0
            /\ req[r].usersAtEnd = req[r].usersAtStart

C5_LeavesTablesAndPool ==
    \A r \in Slots :
        req[r].pc = "idle" /\ OmitsField(r)' =>
            /\ users' = users
            /\ document_details' = document_details
            /\ nextId' = nextId
            /\ checkedOut' = checkedOut

\* C5: a /register or /login request that omits email or password is
\* answered 400 in the step it arrives, calls neither bcrypt nor the pool, and
\* leaves the tables and the pool as they were.
C5_OmittedFieldNoQuery ==
    /\ []C5_Answered400
    /\ [][C5_LeavesTablesAndPool]_vars

C5_Witness ==
    \E r1, r2 \in Slots :
        /\ req[r1].in.kind = "register" /\ Email(r1) # Undefined
        /\ Password(r1) = Undefined /\ Status(r1) = 400
        /\ req[r2].in.kind = "login" /\ Email(r2) = Undefined
        /\ Status(r2) = 400

-----------------------------------------------------------------------------
(* C6 *)

\* C6: a request sends no response before it ends and exactly one when it
\* ends, no failure leaves a handler uncaught, and a failure is answered 409
\* on /register when it is the uniqueness violation and 500 otherwise.
C6_OneResponseNoEscape ==
    \A r \in Slots :
        /\ req[r].pc # "crashed"
        /\ Len(req[r].sent) = (IF IsDone(r) THEN 1 ELSE 0)
        /\ IsDone(r) /\ req[r].error = "23505" =>
               req[r].in.kind = "register" /\ Status(r) = 409
        /\ IsDone(r) /\ req[r].error = "other" => Status(r) = 500
        /\ IsDone(r) /\ req[r].error = "none" => Status(r) \notin {409, 500}

\* a uniqueness violation on /register and a failed comparison on /login
C6_Witness ==
    \E r1, r2 \in Slots :
        /\ IsDone(r1) /\ req[r1].error = "23505" /\ Status(r1) = 409
        /\ IsDone(r2) /\ req[r2].in.kind = "login" /\ req[r2].rows # <<>>
        /\ req[r2].error = "other" /\ Status(r2) = 500

-----------------------------------------------------------------------------
(* C7 *)

\* the four requests of the scenario were answered, one after the other,
\* with no failure of hashing or datastore
ScenarioRan ==
    /\ workload = Scenario
    /\ \A r \in 1..4 : IsDone(r) /\ Healthy(r)
    /\ \A r \in 2..4 : Before(r - 1, r)

ScenarioResponses(conflict) ==
    /\ Status(1) = 201
    /\ DOMAIN Body(1) = {"message", "userId"}
    /\ req[2].sent = <<Response(409, [message |-> conflict])>>
    /\ req[3].sent = <<Response(401, [message |-> "Invalid email or password."])>>
    /\ req[4].sent = <<Response(200, [message |-> "Login successful!"])>>

\* C7 as stated: the scenario is answered 201 with a userId, 409 "Email
\* already exists.", 401 "Invalid email or password.", 200 "Login successful!".
C7_Original == ScenarioRan => ScenarioResponses("Email already exists.")

\* C7 as amended: the same, except that the 409 message is "Email already
\* exists." in src/unnamed/part_000 and "Email already exists. Please use a
\* different email." in src/server.js.
C7_ScenarioResponses ==
    ScenarioRan =>
        ScenarioResponses(
            IF variant = "part_000"
            THEN "Email already exists."
            ELSE "Email already exists. Please use a different email.")

C7_Witness == ScenarioRan /\ variant = "server.js" /\ Status(2) = 409

-----------------------------------------------------------------------------
(* C8 *)

\* the places in table document_details of the rows r asks for
Matching(r) ==
    {i \in 1..Len(document_details) :
        /\ document_details[i].country = req[r].in.country
        /\ document_details[i].document_type = req[r].in.type}

First(S) == CHOOSE i \in S : \A j \in S : i <= j

C8_FirstRowOr404 ==
    \A r \in Slots :
        IsDocuments(r) /\ IsDone(r) /\ req[r].error = "none" =>
            IF Matching(r) = {}
            THEN req[r].sent = <<Response(404, [message |->
                "Document not found for the specified country and type."])>>
            ELSE req[r].sent =
                     <<Response(200, document_details[First(Matching(r))])>>

\* C8: a lookup that meets no failure answers 404 with the message above
\* exactly when no row has the pair, answers 200 with the first such row
\* otherwise, and no step changes document_details.
C8_DocumentLookup ==
    /\ []C8_FirstRowOr404
    /\ [][document_details' = document_details]_vars

\* one lookup with two matching rows and one with none
C8_Witness ==
    \E r1, r2 \in Slots :
        /\ IsDocuments(r1) /\ IsDone(r1) /\ Status(r1) = 200
        /\ Cardinality(Matching(r1)) = 2
        /\ IsDocuments(r2) /\ IsDone(r2) /\ Status(r2) = 404

-----------------------------------------------------------------------------
(* C9 *)

\* the holders of a client: requests and startup test between checkout and
\* the end of their query
Holders ==
    Cardinality({r \in Slots : req[r].pc = "query"})
        + (IF startup = "query" THEN 1 ELSE 0)

Quiescent ==
    /\ startup = "done"
    /\ \A r \in Slots : req[r].pc \in {"idle", "done"}

\* C9: the clients checked out are those of the queries in progress, so that
\* none is checked out once the startup test and every request that arrived
\* have ended, whatever their outcome.
C9_ClientsReturned ==
    /\ checkedOut = Holders
    /\ Quiescent => checkedOut = 0

\* all ended: a failed query, a uniqueness violation
C9_Witness ==
    /\ Quiescent
    /\ \E r1, r2 \in Slots :
          /\ req[r1].error = "23505"
          /\ req[r2].error = "other" /\ req[r2].queries = 1

-----------------------------------------------------------------------------
(* C10 *)

\* the requests answered 201 by the step
Created == {r \in Slots : ~IsDone(r) /\ IsDone(r)' /\ Status(r)' = 201}

C10_Step ==
    IF Created = {}
    THEN users' = users
    ELSE /\ Cardinality(Created) = 1
         /\ Len(users') = Len(users) + 1
         /\ SubSeq(users', 1, Len(users)) = users
         /\ \A r \in Created : users'[Len(users')].email = Email(r)'

\* C10: a step that answers a registration 201 appends one row to users and
\* leaves the rows before it as they were; every other step, of any request
\* and of the startup test, leaves users unchanged.
C10_UsersAppendOnly == [][C10_Step]_vars

\* a 201 registration, then a refused registration and a row still in place
C10_Witness ==
    \E r1, r2 \in Slots :
        /\ IsDone(r1) /\ Status(r1) = 201
        /\ IsDone(r2) /\ Before(r1, r2) /\ Status(r2) = 409
        /\ Len(users) = 2

====
